---------------------------- MODULE Spec2Model ----------------------------
(***************************************************************************)
(* A model of server.py of SpliceAI-lookup: the variant parser, the score  *)
(* resolver (cache lookup with fall-back to the model scorer) and the      *)
(* liftover transformer with its temporary-file exchange.                  *)
(*                                                                         *)
(* Text is modelled as a sequence of one-character strings where the code  *)
(* looks at characters (the variant text), and as a sequence of chunks     *)
(* elsewhere: a chunk is either one delimiter character ("|", "#", tab,    *)
(* newline, space) or a run of characters holding none of them.            *)
(***************************************************************************)
EXTENDS Integers, Sequences, FiniteSets, TLC

VARIABLES SPLICEAI_CACHE_FILES, pc, req, res, obs, tmpfiles, proc

vars == <<SPLICEAI_CACHE_FILES, pc, req, res, obs, tmpfiles, proc>>

\* The longest sequence of lines one range query returns in the model.
MaxRecords == 2

SPLICEAI_DEFAULT_DISTANCE == 50

(***************************************************************************)
(* Text helpers                                                            *)
(***************************************************************************)
RECURSIVE RunEnd(_, _, _)
\* The index just past the longest run of characters of class C that starts
\* at index i of s: what a greedy character-class repetition consumes.
RunEnd(s, i, C) ==
    IF i <= Len(s) /\ s[i] \in C THEN RunEnd(s, i + 1, C) ELSE i

DigitValue(c) ==
    CASE c = "0" -> 0 [] c = "1" -> 1 [] c = "2" -> 2 [] c = "3" -> 3
      [] c = "4" -> 4 [] c = "5" -> 5 [] c = "6" -> 6 [] c = "7" -> 7
      [] c = "8" -> 8 [] c = "9" -> 9

Digits == {"0", "1", "2", "3", "4", "5", "6", "7", "8", "9"}

RECURSIVE ToInt(_)
\* int() of a non-empty string of decimal digits.
ToInt(s) ==
    IF s = <<>> THEN 0
    ELSE 10 * ToInt(SubSeq(s, 1, Len(s) - 1)) + DigitValue(s[Len(s)])

\* Whether int() accepts the string (decimal digits; signs, underscores and
\* surrounding blanks, which int() also accepts, are outside the test data).
IsInt(s) == s # <<>> /\ \A i \in 1..Len(s) : s[i] \in Digits

(***************************************************************************)
(* VARIANT_RE and parse_variant                                            *)
(***************************************************************************)
ChromClass == Digits \cup {"X", "Y", "M", "T", "t"}
SepClass == {"-", " ", "\t", ":"}
Sep3Class == SepClass \cup {">"}
BaseClass == {"A", "C", "G", "T"}

\* re.match of VARIANT_RE at the start of s.  Each repetition is followed by
\* a class disjoint from its own, so the greedy longest run is the only way
\* the pattern can match; nothing anchors the end of the text.
VARIANT_RE(s) ==
    LET a == IF Len(s) >= 3 /\ SubSeq(s, 1, 3) = <<"c", "h", "r">> THEN 4 ELSE 1
        b == RunEnd(s, a, ChromClass)
        c == RunEnd(s, b, SepClass)
        d == RunEnd(s, c, Digits)
        e == RunEnd(s, d, SepClass)
        f == RunEnd(s, e, BaseClass)
        g == RunEnd(s, f, Sep3Class)
        h == RunEnd(s, g, BaseClass)
    IN  IF /\ b - a \in 1..2
           /\ c > b
           /\ d - c \in 1..9
           /\ e > d
           /\ f > e
           /\ g > f
           /\ h > g
        THEN [matched |-> TRUE,
              chrom |-> SubSeq(s, a, b - 1),
              pos |-> SubSeq(s, c, d - 1),
              ref |-> SubSeq(s, e, f - 1),
              alt |-> SubSeq(s, g, h - 1),
              end |-> h - 1]
        ELSE [matched |-> FALSE]

\* parse_variant: the four fields, or ValueError.
parse_variant(variant_str) ==
    LET match == VARIANT_RE(variant_str)
    IN  IF ~match.matched
        THEN [raised |-> TRUE]
        ELSE [raised |-> FALSE, chrom |-> match.chrom, pos |-> ToInt(match.pos),
              ref |-> match.ref, alt |-> match.alt]


(***************************************************************************)
(* process_variant                                                         *)
(***************************************************************************)
NotCalled == [called |-> FALSE]

\* A rejection that is off by one on the alternate allele.
IsComplexInDelOffByOne(ref, alt) == Len(ref) > 1 /\ Len(alt) > 2

\* if len(ref) > 1 and len(alt) > 1: the complex InDel rejection.
IsComplexInDel(ref, alt) == Len(ref) > 1 /\ Len(alt) > 1

\* The allele-length condition with `and` in place of `or`.
AlleleLengthBoth(ref, alt) == Len(ref) <= 5 /\ Len(alt) <= 2

\* (len(ref) <= 5 or len(alt) <= 2), the allele-length part of the guard.
AlleleLengthOk(ref, alt) == Len(ref) <= 5 \/ Len(alt) <= 2

\* A guard that forgets the distance.
UseCacheAnyDistance(ref, alt, spliceai_distance) == AlleleLengthOk(ref, alt)

\* The whole guard of the cache lookup.
UseCache(ref, alt, spliceai_distance) ==
    AlleleLengthOk(ref, alt) /\ spliceai_distance = SPLICEAI_DEFAULT_DISTANCE

\* The key derived for SPLICEAI_CACHE_FILES.
CacheKey(ref, alt, genome_version, spliceai_mask) ==
    << IF spliceai_mask = 1 THEN "masked"
       ELSE IF spliceai_mask = 0 THEN "raw" ELSE "None",
       IF Len(ref) = 1 /\ Len(alt) = 1 THEN "snv" ELSE "indel",
       IF genome_version = "37" THEN "hg19"
       ELSE IF genome_version = "38" THEN "hg38" ELSE "None" >>

\* The test on one fetched line without the comparison of the alternate.
LineEvalIgnoringAlt(fields, chrom, pos, ref, alt) ==
    IF fields[1] # chrom THEN "skip"
    ELSE IF Len(fields) < 2 \/ ~IsInt(fields[2]) THEN "raise"
    ELSE IF ToInt(fields[2]) # pos THEN "skip"
    ELSE IF Len(fields) < 4 THEN "raise"
    ELSE IF fields[4] # ref THEN "skip"
    ELSE IF Len(fields) < 8 THEN "raise"
    ELSE "match"

\* The test on one fetched line (its tab-separated fields), evaluated left to
\* right as Python's `and` does: a field is read, and can raise, only when the
\* comparisons before it were true.
LineEval(fields, chrom, pos, ref, alt) ==
    IF fields[1] # chrom THEN "skip"
    ELSE IF Len(fields) < 2 \/ ~IsInt(fields[2]) THEN "raise"
    ELSE IF ToInt(fields[2]) # pos THEN "skip"
    ELSE IF Len(fields) < 4 THEN "raise"
    ELSE IF fields[4] # ref THEN "skip"
    ELSE IF Len(fields) < 5 THEN "raise"
    ELSE IF fields[5] # alt THEN "skip"
    ELSE IF Len(fields) < 8 THEN "raise"
    ELSE "match"

RECURSIVE ScanLines(_, _, _, _, _, _, _, _)
\* The for loop over the fetched lines from line i on; iter_fault says the
\* iterator itself raises once the lines are exhausted.  scores is a list the
\* loop appends to in place, so what was appended before an exception stays.
ScanLines(lines, iter_fault, i, chrom, pos, ref, alt, scores) ==
    IF i > Len(lines)
    THEN [scores |-> scores, raised |-> iter_fault]
    ELSE LET ev == LineEval(lines[i], chrom, pos, ref, alt)
         IN  IF ev = "raise"
             THEN [scores |-> scores, raised |-> TRUE]
             ELSE ScanLines(lines, iter_fault, i + 1, chrom, pos, ref, alt,
                            IF ev = "match"
                            THEN Append(scores, lines[i][8]) ELSE scores)

\* The try block of the lookup: scores and source as they stand after it.
\* A missing key raises KeyError before any fetch is issued.
CacheLookup(key, chrom, pos, ref, alt, cache_files, fetch_outcome) ==
    IF key \notin cache_files
    THEN [scores |-> <<>>, source |-> "None", raised |-> TRUE, fetched |-> FALSE]
    ELSE LET scan == ScanLines(fetch_outcome.lines, fetch_outcome.fault, 1,
                               chrom, pos, ref, alt, <<>>)
         IN  [scores |-> scan.scores,
              source |-> IF ~scan.raised /\ scan.scores # <<>>
                         THEN "lookup" ELSE "None",
              raised |-> scan.raised,
              fetched |-> TRUE]

HasPipe(s) == \E i \in 1..Len(s) : s[i] = "|"

\* s[s.index("|")+1:]
DropAllele(s) ==
    LET idx == CHOOSE i \in 1..Len(s) :
                   s[i] = "|" /\ \A j \in 1..(i - 1) : s[j] # "|"
    IN  SubSeq(s, idx + 1, Len(s))

DropAlleles(scores) == [i \in 1..Len(scores) |-> DropAllele(scores[i])]

ErrorResult(variant, error) ==
    [status |-> "returned", value |-> [variant |-> variant, error |-> error]]

NoTrace ==
    [consulted |-> FALSE, fetched |-> FALSE, lookup_raised |-> FALSE,
     scored |-> FALSE, key |-> <<>>]

\* Lines 155-172: the scores of either path made into the result.
FinishResult(variant, genome_version, chrom, pos, ref, alt, scores, source) ==
    IF scores = <<>>
    THEN ErrorResult(variant, <<"Unable to compute scores", variant>>)
    ELSE IF \E i \in 1..Len(scores) : ~HasPipe(scores[i])
    THEN [status |-> "raised", value |-> <<"ValueError">>]
    ELSE [status |-> "returned",
          value |-> [variant |-> variant, genome_version |-> genome_version,
                     chrom |-> chrom, pos |-> pos, ref |-> ref, alt |-> alt,
                     scores |-> DropAlleles(scores), source |-> source]]

\* Lines 139-172, entered with the scores and source the lookup left: the
\* model scorer is reached only when there is no score yet; looking up the
\* annotator or the scorer itself may raise, which ends the request.
ScoreAndFinish(variant, genome_version, chrom, pos, ref, alt, look, scorer_outcome) ==
    IF look.scores # <<>>
    THEN FinishResult(variant, genome_version, chrom, pos, ref, alt,
                      look.scores, look.source)
    ELSE IF genome_version \notin {"37", "38"} \/ scorer_outcome.raised
    THEN ErrorResult(variant, <<"scorer exception">>)
    ELSE FinishResult(variant, genome_version, chrom, pos, ref, alt,
                      scorer_outcome.scores, "computed")

\* Lines 116-137: the lookup, when its guard holds.
LookupStep(chrom, pos, ref, alt, genome_version, spliceai_distance, spliceai_mask, cache_files, fetch_outcome) ==
    IF UseCache(ref, alt, spliceai_distance)
    THEN CacheLookup(CacheKey(ref, alt, genome_version, spliceai_mask),
                     chrom, pos, ref, alt, cache_files, fetch_outcome)
    ELSE [scores |-> <<>>, source |-> "None", raised |-> FALSE,
          fetched |-> FALSE]

\* Which collaborators a request that passed the rejections reached.
TraceOf(ref, alt, genome_version, spliceai_distance, spliceai_mask, look) ==
    [consulted |-> UseCache(ref, alt, spliceai_distance),
     fetched |-> look.fetched,
     lookup_raised |-> look.raised,
     scored |-> look.scores = <<>> /\ genome_version \in {"37", "38"},
     key |-> IF UseCache(ref, alt, spliceai_distance)
             THEN CacheKey(ref, alt, genome_version, spliceai_mask) ELSE <<>>]

\* Lines 116-172 for a parsed variant that is no complex InDel.
Resolve(variant, chrom, pos, ref, alt, genome_version, spliceai_distance, spliceai_mask, cache_files, fetch_outcome, scorer_outcome) ==
    LET look == LookupStep(chrom, pos, ref, alt, genome_version,
                           spliceai_distance, spliceai_mask, cache_files,
                           fetch_outcome)
    IN  [result |-> ScoreAndFinish(variant, genome_version, chrom, pos, ref,
                                   alt, look, scorer_outcome),
         trace |-> TraceOf(ref, alt, genome_version, spliceai_distance,
                           spliceai_mask, look)]

\* process_variant, with the two collaborators' answers as arguments:
\* fetch_outcome is what the tabix range query yields for [pos-1, pos+1),
\* scorer_outcome what get_delta_scores does.  `trace` records which
\* collaborator was reached.
process_variant(variant, genome_version, spliceai_distance, spliceai_mask, cache_files, fetch_outcome, scorer_outcome) ==
    LET p == parse_variant(variant)
    IN  IF p.raised
        THEN [result |-> ErrorResult(variant,
                             <<"Unable to parse variant", variant>>),
              trace |-> NoTrace]
        ELSE IF IsComplexInDel(p.ref, p.alt)
        THEN [result |-> ErrorResult(variant,
                             <<"complex InDels", p.chrom, p.pos, p.ref, p.alt>>),
              trace |-> NoTrace]
        ELSE Resolve(variant, p.chrom, p.pos, p.ref, p.alt, genome_version,
                     spliceai_distance, spliceai_mask, cache_files,
                     fetch_outcome, scorer_outcome)

(***************************************************************************)
(* run_UCSC_liftover_tool and run_liftover                                 *)
(***************************************************************************)
Whitespace == {" ", "\t", "\n"}

RECURSIVE Strip(_)
\* str.strip(): leading and trailing whitespace removed.
Strip(s) ==
    IF s = <<>> THEN s
    ELSE IF s[1] \in Whitespace THEN Strip(Tail(s))
    ELSE IF s[Len(s)] \in Whitespace THEN Strip(SubSeq(s, 1, Len(s) - 1))
    ELSE s

RECURSIVE Split(_, _)
\* str.split(d): the fields between the delimiters, one more than there are
\* delimiters (a text without any is one field, also when it is empty).
Split(s, d) ==
    IF \A i \in 1..Len(s) : s[i] # d
    THEN <<s>>
    ELSE LET k == CHOOSE i \in 1..Len(s) :
                      s[i] = d /\ \A j \in 1..(i - 1) : s[j] # d
         IN  <<SubSeq(s, 1, k - 1)>> \o Split(SubSeq(s, k + 1, Len(s)), d)

\* str.replace(c, ""): every occurrence removed.
Remove(s, c) == SelectSeq(s, LAMBDA x : x # c)

\* file.readline() of a file read from its start: up to and with the first
\* newline, or the whole file when it has none.
ReadLine(f) ==
    IF \A i \in 1..Len(f) : f[i] # "\n"
    THEN f
    ELSE SubSeq(f, 1, CHOOSE i \in 1..Len(f) :
                          f[i] = "\n" /\ \A j \in 1..(i - 1) : f[j] # "\n")

CHAIN_FILE_PATHS == {"hg19-to-hg38", "hg38-to-hg19"}

TempFiles == <<"input_file", "output_file", "unmapped_output_file">>

\* A clean-up that runs only when the block ends normally.
ExitWithKeepOnException(files, by_exception) ==
    IF by_exception THEN files ELSE {}

\* Leaving the with statement, normally or by an exception: each
\* NamedTemporaryFile that was opened is closed, which deletes it.
ExitWith(files, by_exception) == {}

\* "chr" + chrom.replace("chr", "")
NormalizeChrom(chrom) == <<"chr">> \o Remove(chrom, "chr")

\* A field count that is off by one.
IsMappedOffByOne(result_fields) == Len(result_fields) > 4

\* len(result_fields) > 5
IsMapped(result_fields) == Len(result_fields) > 5

\* unmapped_output_file.readline().replace("#", "").strip()
ReasonLiftoverFailed(unmapped) == Strip(Remove(ReadLine(unmapped), "#"))

\* Lines 258-285: what the call does once liftOver has exited with status 0,
\* given the contents of the two output files.  An exception inside the try
\* block (int() of a field that is no number, a field that is not there) is
\* caught and raised again as "liftOver command failed".
ReadResults(hg, chrom, start, end, mapped, unmapped) ==
    LET result_fields == Split(Strip(mapped), "\t")
    IN  IF IsMapped(result_fields)
        THEN IF /\ Len(result_fields) >= 6
                /\ IsInt(result_fields[2])
                /\ IsInt(result_fields[3])
             THEN [status |-> "returned",
                   value |-> [hg |-> hg, chrom |-> chrom, start |-> start,
                              end |-> end,
                              output_chrom |-> result_fields[1],
                              output_start |-> ToInt(result_fields[2]),
                              output_end |-> ToInt(result_fields[3]),
                              output_strand |-> result_fields[6]]]
             ELSE [status |-> "raised",
                   error |-> <<"liftOver command failed">>]
        ELSE IF ReasonLiftoverFailed(unmapped) # <<>>
        THEN [status |-> "raised",
              error |-> <<"Lift over failed: ">> \o ReasonLiftoverFailed(unmapped)]
        ELSE [status |-> "raised",
              error |-> <<"Lift over failed for unknown reasons">>]

REVERSE_COMPLEMENT_MAP ==
    [n \in {"A", "C", "G", "T", "N"} |->
        CASE n = "A" -> "T" [] n = "C" -> "G" [] n = "G" -> "C"
          [] n = "T" -> "A" [] n = "N" -> "N"]

\* The complement without the reversal.
complement_only(seq) == [i \in 1..Len(seq) |-> REVERSE_COMPLEMENT_MAP[seq[i]]]

\* Whether reverse_complement(seq) finds every base in the map (else KeyError).
HasComplement(seq) ==
    \A i \in 1..Len(seq) : seq[i] \in DOMAIN REVERSE_COMPLEMENT_MAP

\* "".join([REVERSE_COMPLEMENT_MAP[n] for n in seq[::-1]])
reverse_complement(seq) ==
    [i \in 1..Len(seq) |-> REVERSE_COMPLEMENT_MAP[seq[Len(seq) - i + 1]]]

error_response(error_message) ==
    [status |-> "returned", code |-> 400, value |-> [error |-> error_message]]

Has(params, k) == k \in DOMAIN params

\* Lines 299-322 of run_liftover: the first complaint about the parameters,
\* or "ok".
CheckParams(params) ==
    IF ~Has(params, "hg") \/ params.hg \notin {"hg19-to-hg38", "hg38-to-hg19"}
    THEN "hg param error"
    ELSE IF ~Has(params, "format")
            \/ params.format \notin {"interval", "variant", "position"}
    THEN "format param error"
    ELSE IF ~Has(params, "chrom") THEN "chrom param not specified"
    ELSE IF params.format = "interval" /\ ~Has(params, "start")
    THEN "start param not specified"
    ELSE IF params.format = "interval" /\ ~Has(params, "end")
    THEN "end param not specified"
    ELSE IF params.format # "interval" /\ ~Has(params, "pos")
    THEN "pos param not specified"
    ELSE "ok"

\* start and end as handed to run_UCSC_liftover_tool: the texts of the
\* request for an interval, [pos - 1, pos) otherwise.
StartOf(params) ==
    IF params.format = "interval" THEN params.start ELSE ToInt(params.pos) - 1

EndOf(params) ==
    IF params.format = "interval" THEN params.end ELSE ToInt(params.pos)

\* Lines 333-347: the response built from the tool's result.
LiftoverResponse(params, result) ==
    LET r1 == [format |-> params.format] @@ result
        r2 == IF params.format \in {"position", "variant"}
              THEN [pos |-> ToInt(params.pos),
                    output_pos |-> result.output_end] @@ r1
              ELSE r1
        flip == result.output_strand = <<"-">>
    IN  IF params.format # "variant"
        THEN [status |-> "returned", code |-> 200, value |-> r2]
        ELSE IF flip /\ ~(HasComplement(params.ref) /\ HasComplement(params.alt))
        THEN [status |-> "raised", value |-> <<"KeyError">>]
        ELSE [status |-> "returned", code |-> 200,
              value |-> [ref |-> params.ref, alt |-> params.alt,
                         output_ref |-> IF flip
                                        THEN reverse_complement(params.ref)
                                        ELSE params.ref,
                         output_alt |-> IF flip
                                        THEN reverse_complement(params.alt)
                                        ELSE params.alt] @@ r2]

\* Lines 328-331: an exception of the tool becomes a 400 response.
LiftoverFailure(tool) == error_response(tool.error)

(***************************************************************************)
(* Requests and collaborator answers the model draws from                  *)
(***************************************************************************)
SeqsUpTo(S, n) == UNION {[1..k -> S] : k \in 0..n}

\* The two ways the module fills SPLICEAI_CACHE_FILES: every file of the
\* production host, or the three test files.
ProductionCacheFiles ==
    {<<m, c, g>> : m \in {"masked", "raw"}, c \in {"indel", "snv"},
                   g \in {"hg19", "hg38"}}

TestCacheFiles ==
    {<<"raw", "indel", "hg38">>, <<"raw", "snv", "hg38">>,
     <<"masked", "snv", "hg38">>}

\* Variant texts handed to process_variant: an SNV, an insertion, an
\* insertion with a 3-base alternate, a deletion with a 6-base reference,
\* two complex InDels, and a text VARIANT_RE does not match.
VariantTexts ==
    { <<"8", "-", "5", "-", "C", "-", "G">>,
      <<"c", "h", "r", "8", ":", "5", ":", "C", ">", "C", "T">>,
      <<"8", "-", "5", "-", "C", "-", "C", "T", "A">>,
      <<"8", "-", "5", "-", "C", "T", "A", "G", "C", "T", "-", "C">>,
      <<"8", "-", "5", "-", "C", "T", "-", "G", "A">>,
      <<"8", "-", "5", "-", "C", "T", "A", "G", "C", "T", "-", "G", "A", "T">>,
      <<"8", "-", "5", "-", "C">> }

GenomeVersions == {"37", "38"}
Distances == {SPLICEAI_DEFAULT_DISTANCE, 100}
Masks == {0, 1}

\* One line of a cache file, split at its tabs:
\* chrom, pos, id, ref, alt, qual, filter, info.
CacheLine(chrom, pos, ref, alt, info) ==
    <<chrom, pos, <<".">>, ref, alt, <<".">>, <<".">>, info>>

\* Lines a range query around 8:5 can yield: two records of 8-5-C-G (two
\* transcripts), a record at the next position, one with another alternate,
\* the insertion 8-5-C-CT, a truncated line, a line whose position is not a
\* number, and a truncated line of another chromosome.
CacheLines ==
    { CacheLine(<<"8">>, <<"5">>, <<"C">>, <<"G">>,
                <<"SpliceAI=G", "|", "GENE1", "|", "0.01">>),
      CacheLine(<<"8">>, <<"5">>, <<"C">>, <<"G">>,
                <<"SpliceAI=G", "|", "GENE2", "|", "0.20">>),
      CacheLine(<<"8">>, <<"6">>, <<"C">>, <<"G">>,
                <<"SpliceAI=G", "|", "GENE1", "|", "0.03">>),
      CacheLine(<<"8">>, <<"5">>, <<"C">>, <<"T">>,
                <<"SpliceAI=T", "|", "GENE1", "|", "0.04">>),
      CacheLine(<<"8">>, <<"5">>, <<"C">>, <<"C", "T">>,
                <<"SpliceAI=CT", "|", "GENE1", "|", "0.05">>),
      << <<"8">>, <<"5">> >>,
      CacheLine(<<"8">>, <<"x">>, <<"C">>, <<"G">>,
                <<"SpliceAI=G", "|", "GENE1", "|", "0.06">>),
      << <<"9">> >> }

\* What fetch(chrom, pos-1, pos+1) yields: some lines, and then either the
\* end of the iteration or an exception (at once when there are no lines).
FetchOutcomes ==
    {[lines |-> l, fault |-> f] : l \in SeqsUpTo(CacheLines, MaxRecords),
                                  f \in BOOLEAN}

\* What get_delta_scores does: raises, or returns a list of
\* ALLELE|SYMBOL|... strings, possibly empty.
ScorerOutcomes ==
    { [raised |-> TRUE, scores |-> <<>>],
      [raised |-> FALSE, scores |-> <<>>],
      [raised |-> FALSE, scores |-> << <<"G", "|", "GENE1", "|", "0.30">> >>],
      [raised |-> FALSE, scores |-> << <<"G", "|", "GENE1", "|", "0.30">>,
                                       <<"G", "|", "GENE2", "|", "0.40">> >>] }

\* Texts handed to parse_variant alone: every combination of a prefix, a
\* chromosome token, separators, a position, alleles and a tail, valid or not.
ParseTexts ==
    { pre \o ch \o sep \o p \o sep2 \o r \o sep3 \o a \o tail :
        pre \in {<<>>, <<"c", "h", "r">>},
        ch \in {<<"8">>, <<"2", "2">>, <<"M", "T">>, <<"9", "9">>, <<"0">>,
                <<"1", "2", "3">>},
        sep \in {<<"-">>, <<":">>, <<" ">>},
        p \in {<<"5">>, <<"1", "4", "0">>, <<"0">>,
               <<"1", "2", "3", "4", "5", "6", "7", "8", "9", "0">>},
        sep2 \in {<<"-">>, <<">">>},
        r \in {<<"C">>, <<"C", "T">>},
        sep3 \in {<<":">>, <<">">>, <<>>},
        a \in {<<"G">>, <<"G", "A">>},
        tail \in {<<>>, <<"N">>, <<"-", "A">>} }

\* A BED line of the given fields, tab-separated and newline-ended.
BedLine(fields) ==
    LET RECURSIVE join(_)
        join(i) == IF i > Len(fields) THEN <<"\n">>
                   ELSE (IF i > 1 THEN <<"\t">> ELSE <<>>) \o fields[i] \o join(i + 1)
    IN  join(1)

\* What liftOver can leave in the mapped-output file: nothing, a BED6 line on
\* either strand, a line with a 7th field, one whose start is no number, one
\* of 5 fields, and one of 5 fields followed by a tab.
MappedOutputs ==
    { <<>>,
      BedLine(<< <<"chr8">>, <<"1", "5", "0">>, <<"1", "5", "5">>, <<".">>,
                 <<"0">>, <<"+">> >>),
      BedLine(<< <<"chr8">>, <<"1", "5", "0">>, <<"1", "5", "5">>, <<".">>,
                 <<"0">>, <<"-">> >>),
      BedLine(<< <<"chr8">>, <<"1", "5", "0">>, <<"1", "5", "5">>, <<".">>,
                 <<"0">>, <<"-">>, <<"1">> >>),
      BedLine(<< <<"chr8">>, <<"x">>, <<"1", "5", "5">>, <<".">>, <<"0">>,
                 <<"+">> >>),
      BedLine(<< <<"chr8">>, <<"1", "5", "0">>, <<"1", "5", "5">>, <<".">>,
                 <<"0">> >>),
      BedLine(<< <<"chr8">>, <<"1", "5", "0">>, <<"1", "5", "5">>, <<".">>,
                 <<"0">>, <<>> >>) }

\* What liftOver can leave in the unmapped-output file: nothing, a reason
\* line and the record, a reason with a second "#", a bare "#", and a reason
\* with blanks around it.
UnmappedOutputs ==
    { <<>>,
      <<"#", "Deleted", " ", "in", " ", "new", "\n", "chr8", "\t", "1", "0", "0",
        "\t", "1", "0", "5", "\n">>,
      <<"#", "Split", "#", "2", "\n">>,
      <<"#", "\n">>,
      <<" ", "#", "Deleted", " ", "\n">> }

LiftoverChroms == {<<"8">>, <<"chr", "8">>}

\* The parameters of a liftover request: well-formed requests of the three
\* formats, and requests lacking a parameter or carrying a bad one.
LiftoverParams ==
    {[hg |-> hg, format |-> "interval", chrom |-> chrom,
      start |-> <<"1", "0", "0">>, end |-> <<"1", "0", "5">>] :
        hg \in CHAIN_FILE_PATHS, chrom \in LiftoverChroms}
    \cup
    {[hg |-> hg, format |-> "position", chrom |-> chrom, pos |-> pos] :
        hg \in CHAIN_FILE_PATHS, chrom \in LiftoverChroms,
        pos \in {<<"1", "0", "1">>, <<"x">>}}
    \cup
    {[hg |-> hg, format |-> "variant", chrom |-> chrom,
      pos |-> <<"1", "0", "1">>, ref |-> ref, alt |-> alt] :
        hg \in CHAIN_FILE_PATHS, chrom \in LiftoverChroms,
        ref \in {<<"C">>, <<"A", "C">>, <<"a">>},
        alt \in {<<"G">>, <<"T", "N">>}}
    \cup
    { [format |-> "interval", chrom |-> <<"8">>],
      [hg |-> "hg18-to-hg19", format |-> "interval", chrom |-> <<"8">>],
      [hg |-> "hg19-to-hg38", chrom |-> <<"8">>],
      [hg |-> "hg19-to-hg38", format |-> "bed", chrom |-> <<"8">>],
      [hg |-> "hg19-to-hg38", format |-> "interval"],
      [hg |-> "hg19-to-hg38", format |-> "interval", chrom |-> <<"8">>,
       end |-> <<"1", "0", "5">>],
      [hg |-> "hg19-to-hg38", format |-> "interval", chrom |-> <<"8">>,
       start |-> <<"1", "0", "0">>],
      [hg |-> "hg19-to-hg38", format |-> "position", chrom |-> <<"8">>] }

(***************************************************************************)
(* The state machine                                                       *)
(***************************************************************************)
Idle == [op |-> "none"]

Init ==
    /\ SPLICEAI_CACHE_FILES \in {ProductionCacheFiles, TestCacheFiles}
    /\ pc = "idle"
    /\ req = Idle
    /\ res = [status |-> "none"]
    /\ obs = NotCalled
    /\ tmpfiles = {}
    /\ proc = "none"

\* One call of parse_variant.
ParseVariant ==
    /\ pc = "idle"
    /\ \E variant_str \in ParseTexts :
         LET p == parse_variant(variant_str)
         IN  /\ req' = [op |-> "parse_variant", variant_str |-> variant_str]
             /\ res' = IF p.raised
                       THEN [status |-> "raised", value |-> <<"ValueError">>]
                       ELSE [status |-> "returned",
                             value |-> <<p.chrom, p.pos, p.ref, p.alt>>]
    /\ obs' = NotCalled
    /\ pc' = "done"
    /\ UNCHANGED <<SPLICEAI_CACHE_FILES, tmpfiles, proc>>

NoLines == [lines |-> <<>>, fault |-> FALSE]

\* Whether the request gets as far as calling fetch, which no answer of a
\* collaborator decides: the range query has an outcome only then.
IssuesFetch(variant, genome_version, spliceai_distance, spliceai_mask, cache_files) ==
    process_variant(variant, genome_version, spliceai_distance, spliceai_mask,
                    cache_files, NoLines,
                    [raised |-> FALSE, scores |-> <<>>]).trace.fetched

\* One call of process_variant, as run_spliceai makes it (hg and mask already
\* validated).  obs keeps a collaborator's answer only when it was asked.
ProcessVariant ==
    /\ pc = "idle"
    /\ \E variant \in VariantTexts, genome_version \in GenomeVersions,
          spliceai_distance \in Distances, spliceai_mask \in Masks,
          scorer_outcome \in ScorerOutcomes :
       \E fetch_outcome \in
              IF IssuesFetch(variant, genome_version, spliceai_distance,
                             spliceai_mask, SPLICEAI_CACHE_FILES)
              THEN FetchOutcomes ELSE {NoLines} :
         LET r == process_variant(variant, genome_version, spliceai_distance,
                                  spliceai_mask, SPLICEAI_CACHE_FILES,
                                  fetch_outcome, scorer_outcome)
         IN  /\ req' = [op |-> "process_variant", variant |-> variant,
                        genome_version |-> genome_version,
                        spliceai_distance |-> spliceai_distance,
                        spliceai_mask |-> spliceai_mask]
             /\ res' = r.result
             /\ obs' = [trace |-> r.trace,
                        fetch |-> IF r.trace.fetched
                                  THEN fetch_outcome ELSE NotCalled,
                        scorer |-> IF r.trace.scored
                                   THEN scorer_outcome ELSE NotCalled]
    /\ pc' = "done"
    /\ UNCHANGED <<SPLICEAI_CACHE_FILES, tmpfiles, proc>>

\* The files of TempFiles that exist when `created` of them were opened.
Opened(created) == {TempFiles[i] : i \in 1..created}

\* run_liftover up to the call of liftOver: the parameters are checked, and
\* run_UCSC_liftover_tool opens its three temporary files and writes the
\* input line.  Opening a file may fail (created < 3), which unwinds the
\* files opened before it.
RunLiftover ==
    /\ pc = "idle"
    /\ \E params \in LiftoverParams, created \in 0..3 :
         /\ req' = [op |-> "run_liftover", params |-> params]
         /\ IF CheckParams(params) # "ok"
            THEN /\ res' = error_response(CheckParams(params))
                 /\ obs' = [spawned |-> 0, tool |-> NotCalled]
                 /\ pc' = "done"
                 /\ UNCHANGED tmpfiles
            ELSE IF params.format # "interval" /\ ~IsInt(params.pos)
            THEN /\ res' = [status |-> "raised", value |-> <<"ValueError">>]
                 /\ obs' = [spawned |-> 0, tool |-> NotCalled]
                 /\ pc' = "done"
                 /\ UNCHANGED tmpfiles
            ELSE IF params.hg \notin CHAIN_FILE_PATHS  \* line 241
            THEN /\ res' = error_response(<<"Unexpected hg arg value">>)
                 /\ obs' = [spawned |-> 0,
                            tool |-> [status |-> "raised",
                                      error |-> <<"Unexpected hg arg value">>]]
                 /\ pc' = "done"
                 /\ UNCHANGED tmpfiles
            ELSE IF created < 3
            THEN /\ res' = error_response(<<"OSError">>)
                 /\ obs' = [spawned |-> 0,
                            tool |-> [status |-> "raised",
                                      error |-> <<"OSError">>]]
                 /\ tmpfiles' = (tmpfiles \ Opened(created))
                                  \cup ExitWith(Opened(created), TRUE)
                 /\ pc' = "done"
            ELSE /\ res' = [status |-> "none"]
                 /\ obs' = [spawned |-> 0, tool |-> NotCalled,
                            call |-> [hg |-> params.hg,
                                      chrom |-> NormalizeChrom(params.chrom),
                                      start |-> StartOf(params),
                                      end |-> EndOf(params)]]
                 /\ tmpfiles' = tmpfiles \cup Opened(3)
                 /\ pc' = "liftOver"
    /\ UNCHANGED <<SPLICEAI_CACHE_FILES, proc>>

\* subprocess.check_output starts the shell that runs liftOver.
SpawnLiftOver ==
    /\ pc = "liftOver"
    /\ proc' = "running"
    /\ obs' = [obs EXCEPT !.spawned = @ + 1]
    /\ pc' = "wait"
    /\ UNCHANGED <<SPLICEAI_CACHE_FILES, req, res, tmpfiles>>

\* liftOver exits with a non-zero status: check_output raises, the except
\* clause raises ValueError, the with statement is left, and run_liftover
\* answers with the error.
LiftOverFails ==
    /\ pc = "wait"
    /\ proc' = "exited"
    /\ obs' = [obs EXCEPT !.tool = [status |-> "raised",
                                    error |-> <<"liftOver command failed">>]]
    /\ tmpfiles' = (tmpfiles \ Opened(3)) \cup ExitWith(Opened(3), TRUE)
    /\ res' = LiftoverFailure([status |-> "raised",
                               error |-> <<"liftOver command failed">>])
    /\ pc' = "done"
    /\ UNCHANGED <<SPLICEAI_CACHE_FILES, req>>

\* liftOver exits with status 0, having written its two output files.
LiftOverSucceeds ==
    /\ pc = "wait"
    /\ proc' = "exited"
    /\ \E mapped \in MappedOutputs, unmapped \in UnmappedOutputs :
         obs' = [mapped |-> mapped, unmapped |-> unmapped] @@ obs
    /\ pc' = "read"
    /\ UNCHANGED <<SPLICEAI_CACHE_FILES, req, res, tmpfiles>>

\* The rest of run_UCSC_liftover_tool and of run_liftover: the outputs are
\* read, the with statement is left by the return or by the exception, and
\* the response is built.
ReadOutput ==
    /\ pc = "read"
    /\ LET tool == ReadResults(obs.call.hg, obs.call.chrom, obs.call.start,
                               obs.call.end, obs.mapped, obs.unmapped)
       IN  /\ obs' = [obs EXCEPT !.tool = tool]
           /\ tmpfiles' = (tmpfiles \ Opened(3))
                            \cup ExitWith(Opened(3), tool.status = "raised")
           /\ res' = IF tool.status = "raised"
                     THEN LiftoverFailure(tool)
                     ELSE LiftoverResponse(req.params, tool.value)
    /\ pc' = "done"
    /\ UNCHANGED <<SPLICEAI_CACHE_FILES, req, proc>>

\* The response has been sent: everything of the request is discarded; the
\* cache file handles stay, and so does whatever is left in the file system.
Discard ==
    /\ pc = "done"
    /\ pc' = "idle"
    /\ req' = Idle
    /\ res' = [status |-> "none"]
    /\ obs' = NotCalled
    /\ proc' = "none"
    /\ UNCHANGED <<SPLICEAI_CACHE_FILES, tmpfiles>>

Next ==
    \/ ParseVariant
    \/ ProcessVariant
    \/ RunLiftover
    \/ SpawnLiftOver
    \/ LiftOverFails
    \/ LiftOverSucceeds
    \/ ReadOutput
    \/ Discard

Spec == Init /\ [][Next]_vars

(***************************************************************************)
(* Properties of process_variant                                           *)
(***************************************************************************)
PVDone == pc = "done" /\ req.op = "process_variant"

\* The variant of the request as parse_variant reads it.
Parsed == parse_variant(req.variant)

\* The request passed both rejections: it parsed, and at least one allele
\* has length 1.
Accepted == ~Parsed.raised /\ (Len(Parsed.ref) = 1 \/ Len(Parsed.alt) = 1)

Succeeded == res.status = "returned" /\ "error" \notin DOMAIN res.value

\* A line with all 8 fields and a numeric position.
WellFormedLine(l) == Len(l) = 8 /\ IsInt(l[2])

\* The range query returned: it yielded well-formed records and ended.
FetchReturned ==
    /\ obs.trace.fetched
    /\ ~obs.fetch.fault
    /\ \A i \in 1..Len(obs.fetch.lines) : WellFormedLine(obs.fetch.lines[i])

ExactMatch(l) ==
    /\ l[1] = Parsed.chrom
    /\ ToInt(l[2]) = Parsed.pos
    /\ l[4] = Parsed.ref
    /\ l[5] = Parsed.alt

ExactMatches == SelectSeq(obs.fetch.lines, ExactMatch)

\* The annotation of a packed info field: what follows its first "|".
Annotation(info) ==
    SubSeq(info, RunEnd(info, 1, {info[j] : j \in 1..Len(info)} \ {"|"}) + 1,
           Len(info))

\* C1: when the range query returns its records, only the records equal to
\* the queried variant in chrom, pos, ref and alt contribute: with at least
\* one such record the result is a success with source "lookup" whose scores
\* are the annotations of exactly those records, in fetch order, and the
\* model scorer is not invoked; with none, the model scorer is invoked and a
\* success has source "computed".
C1_ExactMatchOnly ==
    (PVDone /\ FetchReturned) =>
        IF ExactMatches # <<>>
        THEN /\ Succeeded
             /\ res.value.source = "lookup"
             /\ res.value.scores =
                  [i \in 1..Len(ExactMatches) |-> Annotation(ExactMatches[i][8])]
             /\ ~obs.trace.scored
        ELSE /\ obs.trace.scored
             /\ Succeeded => res.value.source = "computed"

\* C1 witness: the query returned an exact match after a record that
\* differs from the variant, and the result holds the one annotation.
C1_Witness ==
    /\ PVDone /\ FetchReturned
    /\ Len(obs.fetch.lines) = 2
    /\ ~ExactMatch(obs.fetch.lines[1])
    /\ obs.fetch.lines[1][1] = Parsed.chrom
    /\ ExactMatch(obs.fetch.lines[2])
    /\ Succeeded
    /\ res.value.source = "lookup"
    /\ res.value.scores = << <<"GENE1", "|", "0.01">> >>

\* C2: at a distance other than 50 the score cache is never consulted (no
\* key is looked up, no fetch is issued) and no result has source "lookup";
\* every variant that passed the rejections goes through the model scorer.
C2_DistanceBypass ==
    (PVDone /\ req.spliceai_distance # 50) =>
        /\ ~obs.trace.consulted
        /\ ~obs.trace.fetched
        /\ obs.fetch = NotCalled
        /\ ~(Succeeded /\ res.value.source = "lookup")
        /\ Accepted => obs.trace.scored

\* C2 witness: the SNV at distance 100 was scored by the model.
C2_Witness ==
    /\ PVDone
    /\ req.spliceai_distance = 100
    /\ req.variant = <<"8", "-", "5", "-", "C", "-", "G">>
    /\ obs.trace.scored
    /\ Succeeded
    /\ res.value.source = "computed"

\* C3: a parsed variant whose alleles both have length > 1 gets the complex
\* InDel error, and neither the cache nor the model scorer is reached.
C3_ComplexInDelRejected ==
    (PVDone /\ ~Parsed.raised /\ Len(Parsed.ref) > 1 /\ Len(Parsed.alt) > 1) =>
        /\ res.status = "returned"
        /\ DOMAIN res.value = {"variant", "error"}
        /\ res.value.variant = req.variant
        /\ res.value.error[1] = "complex InDels"
        /\ ~obs.trace.consulted
        /\ ~obs.trace.fetched
        /\ ~obs.trace.scored
        /\ obs.fetch = NotCalled
        /\ obs.scorer = NotCalled

\* C3 witness: CT>GA at the default distance was rejected.
C3_Witness ==
    /\ PVDone
    /\ req.variant = <<"8", "-", "5", "-", "C", "T", "-", "G", "A">>
    /\ req.spliceai_distance = 50
    /\ res.status = "returned"
    /\ "error" \in DOMAIN res.value
    /\ res.value.error[1] = "complex InDels"

\* C4: an exception of the cache lookup is a miss: the model scorer is
\* invoked and no result is built from cache records.
C4_CacheFaultIsMiss ==
    (PVDone /\ obs.trace.lookup_raised) =>
        /\ obs.trace.scored
        /\ Succeeded => /\ res.value.source = "computed"
                        /\ res.value.scores = DropAlleles(obs.scorer.scores)

\* C5: a result is either an error of (variant, error) alone, or a success
\* with scores and a source that is "lookup" exactly for scores of cache
\* records without a scorer call, and "computed" exactly for scores of a
\* scorer call.
C5_ResultShape ==
    (PVDone /\ res.status = "returned") =>
        \/ DOMAIN res.value = {"variant", "error"}
        \/ /\ DOMAIN res.value = {"variant", "genome_version", "chrom", "pos",
                                  "ref", "alt", "scores", "source"}
           /\ res.value.scores # <<>>
           /\ res.value.source \in {"lookup", "computed"}
           /\ res.value.source = "lookup" <=>
                 (obs.trace.fetched /\ ~obs.trace.scored)
           /\ res.value.source = "computed" <=> obs.trace.scored

\* C10: for a variant that passed the complex InDel rejection the
\* allele-length condition of the lookup guard holds, so the cache is
\* consulted exactly at distance 50, and the key's class is "snv" exactly
\* when both alleles have length 1.
C10_LengthGuardNeverExcludes ==
    (PVDone /\ Accepted) =>
        /\ AlleleLengthOk(Parsed.ref, Parsed.alt)
        /\ obs.trace.consulted <=> (req.spliceai_distance = 50)
        /\ obs.trace.consulted =>
             obs.trace.key[2] = IF Len(Parsed.ref) = 1 /\ Len(Parsed.alt) = 1
                                THEN "snv" ELSE "indel"

\* C10 witness: C>CTA (alternate longer than 2) was looked up as an indel.
C10_Witness ==
    /\ PVDone /\ Accepted
    /\ Len(Parsed.ref) = 1 /\ Len(Parsed.alt) = 3
    /\ obs.trace.consulted
    /\ obs.trace.key[2] = "indel"

(***************************************************************************)
(* Properties of parse_variant                                             *)
(***************************************************************************)
\* The chromosome tokens of the grammar: 1 to 22, X, Y, M, MT.
ChromTokens ==
    {<<d>> : d \in Digits \ {"0"}}
    \cup {<<"1", d>> : d \in Digits}
    \cup {<<"2", d>> : d \in {"0", "1", "2"}}
    \cup {<<"X">>, <<"Y">>, <<"M">>, <<"M", "T">>}

\* The stated grammar read over the whole text: optional "chr", a
\* chromosome token, separators, a positive integer, separators, a
\* reference allele, separators or ">", an alternate allele, and the end.
Grammar(s) ==
    LET a == IF Len(s) >= 3 /\ SubSeq(s, 1, 3) = <<"c", "h", "r">> THEN 4 ELSE 1
        b == RunEnd(s, a, {s[j] : j \in 1..Len(s)} \ SepClass)
        c == RunEnd(s, b, SepClass)
        d == RunEnd(s, c, Digits)
        e == RunEnd(s, d, SepClass)
        f == RunEnd(s, e, BaseClass)
        g == RunEnd(s, f, Sep3Class)
        h == RunEnd(s, g, BaseClass)
    IN  IF /\ SubSeq(s, a, b - 1) \in ChromTokens
           /\ c > b
           /\ d > c
           /\ \E i \in c..(d - 1) : s[i] # "0"
           /\ e > d
           /\ f > e
           /\ g > f
           /\ h > g
           /\ h = Len(s) + 1
        THEN [ok |-> TRUE,
              value |-> <<SubSeq(s, a, b - 1), ToInt(SubSeq(s, c, d - 1)),
                          SubSeq(s, e, f - 1), SubSeq(s, g, h - 1)>>]
        ELSE [ok |-> FALSE]

ParseDone == pc = "done" /\ req.op = "parse_variant"

\* C8: parse_variant returns the four fields exactly for the texts of the
\* grammar, and fails with a parse error for every other text.
C8_ParseAgreesWithGrammar ==
    ParseDone =>
        IF Grammar(req.variant_str).ok
        THEN res.status = "returned" /\ res.value = Grammar(req.variant_str).value
        ELSE res.status = "raised"

(***************************************************************************)
(* Properties of the liftover                                              *)
(***************************************************************************)
LiftoverDone == pc = "done" /\ req.op = "run_liftover"

\* run_UCSC_liftover_tool was entered, and has returned or raised.
ToolCalled == LiftoverDone /\ "status" \in DOMAIN obs.tool

ToolReturned == ToolCalled /\ obs.tool.status = "returned"

\* liftOver ran and exited with status 0.
ToolRan == ToolCalled /\ "mapped" \in DOMAIN obs

Complement(n) ==
    CASE n = "A" -> "T" [] n = "T" -> "A" [] n = "C" -> "G" [] n = "G" -> "C"
      [] n = "N" -> "N"

RECURSIVE Reversed(_)
Reversed(seq) ==
    IF seq = <<>> THEN <<>> ELSE Reversed(Tail(seq)) \o <<Head(seq)>>

\* The reverse complement as the claim words it: the sequence reversed, each
\* base complemented.
ReverseComplemented(seq) ==
    LET r == Reversed(seq) IN [i \in 1..Len(r) |-> Complement(r[i])]

OverACGTN(seq) == \A i \in 1..Len(seq) : seq[i] \in {"A", "C", "G", "T", "N"}

AlleleFields == {"ref", "alt", "output_ref", "output_alt"}

\* C6: after a successful transform a variant-format response carries ref
\* and alt unchanged as output_ref and output_alt on any strand but "-", and
\* their reverse complements on "-"; interval and position responses carry
\* no allele field.
C6_StrandAwareAlleles ==
    ToolReturned =>
        LET params == req.params
            minus == obs.tool.value.output_strand = <<"-">>
        IN  /\ (params.format = "variant" /\ ~minus) =>
                 /\ res.status = "returned"
                 /\ res.value.output_ref = params.ref
                 /\ res.value.output_alt = params.alt
            /\ (params.format = "variant" /\ minus
                  /\ OverACGTN(params.ref) /\ OverACGTN(params.alt)) =>
                 /\ res.status = "returned"
                 /\ res.value.output_ref = ReverseComplemented(params.ref)
                 /\ res.value.output_alt = ReverseComplemented(params.alt)
            /\ params.format # "variant" =>
                 /\ res.status = "returned"
                 /\ DOMAIN res.value \cap AlleleFields = {}

\* C6 witness: AC>TN lifted to the minus strand became GT>NA.
C6_Witness ==
    /\ ToolReturned
    /\ req.params.format = "variant"
    /\ obs.tool.value.output_strand = <<"-">>
    /\ req.params.ref = <<"A", "C">>
    /\ req.params.alt = <<"T", "N">>
    /\ res.status = "returned"
    /\ res.value.output_ref = <<"G", "T">>
    /\ res.value.output_alt = <<"N", "A">>

\* The tab-delimited fields of the mapped output's line.
MappedLineFields == Split(Remove(ReadLine(obs.mapped), "\n"), "\t")

\* The first line of the unmapped output without its leading "#".
LeadingHashRemoved ==
    LET line == Remove(ReadLine(obs.unmapped), "\n")
    IN  IF line # <<>> /\ line[1] = "#" THEN Tail(line) ELSE line

\* C7 as stated: with fewer than 6 fields in the mapped output the call
\* fails, with the unmapped file's reason less its leading "#" when that
\* file is not empty and with the generic error when it is; with 6 or more
\* fields it returns fields 0, 1, 2 and 5.
C7_AsStated ==
    ToolRan =>
        IF Len(MappedLineFields) < 6
        THEN /\ obs.tool.status = "raised"
             /\ obs.tool.error =
                  IF obs.unmapped # <<>>
                  THEN <<"Lift over failed: ">> \o LeadingHashRemoved
                  ELSE <<"Lift over failed for unknown reasons">>
        ELSE /\ obs.tool.status = "returned"
             /\ obs.tool.value.output_chrom = MappedLineFields[1]
             /\ IsInt(MappedLineFields[2])
             /\ obs.tool.value.output_start = ToInt(MappedLineFields[2])
             /\ IsInt(MappedLineFields[3])
             /\ obs.tool.value.output_end = ToInt(MappedLineFields[3])
             /\ obs.tool.value.output_strand = MappedLineFields[6]

\* The fields of the mapped output once surrounding whitespace is stripped.
StrippedFields == Split(Strip(obs.mapped), "\t")

\* The first line of the unmapped output with every "#" removed and
\* surrounding whitespace stripped.
StrippedReason ==
    Strip(SelectSeq(ReadLine(obs.unmapped), LAMBDA x : x # "#"))

\* C7 amended: the fields are counted after stripping the output; with fewer
\* than 6 the call fails, with the stripped, "#"-free first line of the
\* unmapped file as the reason when that is not empty and with the generic
\* error otherwise; with 6 or more fields it returns fields 0, 1, 2 and 5
\* when fields 1 and 2 are integers, and fails with "liftOver command
\* failed" when they are not.
C7_Amended ==
    ToolRan =>
        IF Len(StrippedFields) < 6
        THEN /\ obs.tool.status = "raised"
             /\ obs.tool.error =
                  IF StrippedReason # <<>>
                  THEN <<"Lift over failed: ">> \o StrippedReason
                  ELSE <<"Lift over failed for unknown reasons">>
        ELSE IF IsInt(StrippedFields[2]) /\ IsInt(StrippedFields[3])
        THEN /\ obs.tool.status = "returned"
             /\ obs.tool.value.output_chrom = StrippedFields[1]
             /\ obs.tool.value.output_start = ToInt(StrippedFields[2])
             /\ obs.tool.value.output_end = ToInt(StrippedFields[3])
             /\ obs.tool.value.output_strand = StrippedFields[6]
        ELSE /\ obs.tool.status = "raised"
             /\ obs.tool.error = <<"liftOver command failed">>

\* C7 witness: an empty mapped output with "#Deleted in new" as the reason
\* failed with the message "Deleted in new".
C7_Witness ==
    /\ ToolRan
    /\ obs.mapped = <<>>
    /\ ReadLine(obs.unmapped) = <<"#", "Deleted", " ", "in", " ", "new", "\n">>
    /\ obs.tool.status = "raised"
    /\ obs.tool.error = <<"Lift over failed: ", "Deleted", " ", "in", " ", "new">>
    /\ res.value.error = obs.tool.error

\* C9: once run_UCSC_liftover_tool has returned or raised, none of its
\* three temporary files exists and the external process has finished; a
\* call never spawns more than one process.
C9_NoLeak ==
    /\ ToolCalled => /\ tmpfiles \cap Opened(3) = {}
                     /\ proc # "running"
    /\ (req.op = "run_liftover" /\ "spawned" \in DOMAIN obs) => obs.spawned <= 1

\* C9 witness: the call raised while converting the output (a start that is
\* no number), after the one process it spawned had exited.
C9_Witness ==
    /\ ToolRan
    /\ Len(StrippedFields) >= 6
    /\ ~IsInt(StrippedFields[2])
    /\ obs.tool.status = "raised"
    /\ obs.spawned = 1
    /\ proc = "exited"
    /\ tmpfiles = {}

=============================================================================
